---- MODULE Spec2Model ----
(***************************************************************************)
(* alerts-collector: the alert forwarder (pkg/forwarder), the webhook      *)
(* handler that calls it (pkg/webhook) and the start-up code of cmd/main.  *)
(*                                                                         *)
(* Five specifications are given.                                          *)
(*   Spec        Forward as a method: the receiver is any Forwarder value  *)
(*               (targets as NewAlertmanager builds them, a version list   *)
(*               taken from the targets' versions), the caller passes any  *)
(*               batch and any context.                                    *)
(*   SpecProgram the process from main(): NewForwarder builds the          *)
(*               Forwarder, the webhook handler Serve calls Forward with   *)
(*               context.TODO() and writes the response.                   *)
(*   SpecEncode  Forward up to the end of its version loop, on batches of  *)
(*               several different alerts.                                 *)
(*   SpecConcurrent  several Forward calls side by side on one Forwarder.  *)
(*   SpecLive    Spec under fair scheduling, for termination.              *)
(***************************************************************************)
EXTENDS Integers, Sequences, FiniteSets, TLC

\* ------------------------------------------------------------------ bounds
MaxTargets   == 2   \* upstream alertmanagers of one Forwarder
MaxEndpoints == 2   \* static addresses of one alertmanager
MaxUnits     == 3   \* endpoints of one Forwarder, summed over its alertmanagers
MaxAlerts    == 1   \* alerts in one inbound batch
MaxTimeout   == 1   \* largest configured timeout, in clock ticks
MaxTime      == 1   \* clock ticks observed during one Forward call
MaxBatch     == 2   \* alerts in a batch given to the encoders alone
MaxLiveUnits == 2   \* endpoints of a Forwarder whose calls are followed to their end
MaxCalls     == 2   \* Forward calls running side by side on one Forwarder
MaxCallUnits == 2   \* endpoints of a Forwarder that is called concurrently

\* ------------------------------------------------------------- data model
\* APIVersion is a string read from YAML and never validated: besides the two
\* known constants it can hold any other text, of which "" (api_version
\* omitted) stands for all.
APIv1 == "v1"
APIv2 == "v2"
APIVersions == {APIv1, APIv2, ""}

\* template.Alert, reduced to the fields Forward encodes.
AlertFoo == [Labels |-> {<<"alertname", "foo">>, <<"severity", "critical">>},
             Annotations |-> {}, StartsAt |-> 1, EndsAt |-> 0,
             GeneratorURL |-> "g"]
AlertSet == {AlertFoo}

\* An alert without labels and annotations.
AlertBare == [Labels |-> {}, Annotations |-> {}, StartsAt |-> 2, EndsAt |-> 3,
              GeneratorURL |-> ""]

SeqsUpTo(S, n) == UNION {[1..k -> S] : k \in 0..n}

AlertBatches == SeqsUpTo(AlertSet, MaxAlerts)

\* A URL path is the sequence of its segments: "/am/api/v1/alerts" is
\* <<"am", "api", "v1", "alerts">> and "/" is <<>>.
\* path.Join: the elements joined by slashes and cleaned, which drops the
\* empty segments.
PathJoin(p, q) == SelectSeq(p \o q, LAMBDA seg : seg # "")

\* path_prefix of the configuration: every alertmanager is configured with
\* the prefix "am".
PathPrefix == <<"am">>

\* path.Join("/", amcfg.EndpointsConfig.PathPrefix), line 52
BasePath == PathJoin(<<>>, PathPrefix)

\* An Alertmanager value: the endpoints are numbered 1..endpoints, and
\* paths[j] is the Path of the URL of endpoint j.
Alertmanagers == {am \in [endpoints : 0..MaxEndpoints, timeout : 0..MaxTimeout,
                          version : APIVersions,
                          paths : SeqsUpTo({BasePath}, MaxEndpoints)] :
                    Len(am.paths) = am.endpoints}

RECURSIVE SumEndpoints(_, _)
SumEndpoints(ams, i) ==
  IF i > Len(ams) THEN 0 ELSE ams[i].endpoints + SumEndpoints(ams, i + 1)

\* The subsequences of s: s with any of its elements left out.
RECURSIVE SubSeqs(_)
SubSeqs(s) ==
  IF Len(s) = 0 THEN {<<>>}
  ELSE LET rest == SubSeqs(Tail(s))
       IN  rest \cup {<<Head(s)>> \o r : r \in rest}

TargetLists == {ams \in SeqsUpTo(Alertmanagers, MaxTargets) :
                  SumEndpoints(ams, 1) <= MaxUnits}

\* The Forwarder values: NewForwarder's loop of lines 121-127 appends to the
\* version list at most one entry per alertmanager, that alertmanager's
\* version, in the order of the alertmanagers.
Forwarders == {fw \in [alertmanagers : TargetLists,
                       versions : SeqsUpTo(APIVersions, MaxTargets)] :
                 fw.versions \in SubSeqs([i \in 1..Len(fw.alertmanagers) |->
                                           fw.alertmanagers[i].version])}

\* context.Context of the caller: cancelled or not, and an optional deadline.
NoDeadline == -1
Contexts == [cancelled : {FALSE}, deadline : {NoDeadline} \cup 1..MaxTime]
ContextTODO == [cancelled |-> FALSE, deadline |-> NoDeadline]

Min(a, b) == IF a <= b THEN a ELSE b

\* error values
NoErr  == [kind |-> "nil"]
EncErr(v) == [kind |-> "encoding", version |-> v]
AllFailedErr(n) == [kind |-> "allfailed", numAlerts |-> n]

NilBytes == <<>>

VARIABLES
  fwder,       \* the Forwarder: alertmanagers and versions (inside NewForwarder,
               \* the alertmanagers built so far)
  alerts,      \* the batch of the running Forward call
  ctx,         \* the caller's context of the running call
  fpc,         \* where Forward is: idle, spawn, wait, returned
  payload,     \* map[APIVersion][]byte of the call
  encCalls,    \* encoder invocations of the call, per version
  units,       \* the dispatch goroutines, in launch order
  wg,          \* sync.WaitGroup counter
  numSuccess,  \* atomic.Uint64
  result,      \* the error Forward returned
  now,         \* clock ticks since the call began
  cfg,         \* the alerting configuration file the process was started with
  proc,        \* where the process is: main, built, webhook, serving, panicked, exited
  hpc,         \* where the webhook handler Serve is
  w,           \* the http.ResponseWriter of the request being served
  frames       \* the locals of the Forward calls that run side by side

vars == <<fwder, alerts, ctx, fpc, payload, encCalls, units,
          wg, numSuccess, result, now, cfg, proc, hpc, w, frames>>

\* ------------------------------------------------------- protocol encoders
\* kvToLabelSet copies every key/value pair into a fresh LabelSet.
kvToLabelSet(kvs) == {kv \in kvs : TRUE}

\* json.Marshal(alerts): one object per alert, in batch order.
EncodeV1(a) == [version |-> APIv1,
                items |-> [i \in 1..Len(a) |-> a[i]]]

\* EncodeV2 with the alerts that carry no label left out.
EncodeV2SkipsUnlabelled(a) ==
  LET kept == SelectSeq(a, LAMBDA x : x.Labels # {})
  IN  [version |-> APIv2,
       items |-> [i \in 1..Len(kept) |->
          [Annotations |-> kvToLabelSet(kept[i].Annotations),
           EndsAt |-> kept[i].EndsAt,
           StartsAt |-> kept[i].StartsAt,
           Alert |-> [GeneratorURL |-> kept[i].GeneratorURL,
                      Labels |-> kvToLabelSet(kept[i].Labels)]]]]

\* models.PostableAlerts built by the loop of lines 156-167, then marshalled.
EncodeV2(a) == [version |-> APIv2,
                items |-> [i \in 1..Len(a) |->
                   [Annotations |-> kvToLabelSet(a[i].Annotations),
                    EndsAt |-> a[i].EndsAt,
                    StartsAt |-> a[i].StartsAt,
                    Alert |-> [GeneratorURL |-> a[i].GeneratorURL,
                               Labels |-> kvToLabelSet(a[i].Labels)]]]]

\* A Go map read: the zero value when the key is absent.
MapGet(m, k) == IF k \in DOMAIN m THEN m[k] ELSE NilBytes
MapPut(m, k, v) == [x \in DOMAIN m \cup {k} |-> IF x = k THEN v ELSE m[x]]

\* EncodeLoop with a failing version skipped instead of returned.
RECURSIVE EncodeLoopSkipsFailure(_, _, _, _, _)
EncodeLoopSkipsFailure(versions, a, ef, i, st) ==
  IF i > Len(versions) THEN st
  ELSE LET v == versions[i]
           called == [st.calls EXCEPT ![v] = @ + 1]
       IN  IF v \in {APIv1, APIv2}
           THEN IF v \in ef
                THEN EncodeLoopSkipsFailure(versions, a, ef, i + 1,
                       [st EXCEPT !.calls = called])
                ELSE EncodeLoopSkipsFailure(versions, a, ef, i + 1,
                       [st EXCEPT !.calls = called,
                          !.payload = MapPut(@, v,
                             IF v = APIv1 THEN EncodeV1(a) ELSE EncodeV2(a))])
           ELSE EncodeLoopSkipsFailure(versions, a, ef, i + 1,
                  [st EXCEPT !.payload = MapPut(@, v, NilBytes)])

\* The version loop of Forward (lines 143-174) from index i on: st carries the
\* payload map, the encoder invocations so far and the error returned, if any.
\* A failing json.Marshal returns at once; a version that is neither v1 nor v2
\* falls through the switch and stores a nil payload.
RECURSIVE EncodeLoop(_, _, _, _, _)
EncodeLoop(versions, a, ef, i, st) ==
  IF i > Len(versions) THEN st
  ELSE LET v == versions[i]
           called == [st.calls EXCEPT ![v] = @ + 1]
       IN  IF v = APIv1
           THEN IF v \in ef
                THEN [st EXCEPT !.calls = called, !.err = EncErr(v)]
                ELSE EncodeLoop(versions, a, ef, i + 1,
                       [st EXCEPT !.calls = called,
                                  !.payload = MapPut(@, v, EncodeV1(a))])
           ELSE IF v = APIv2
           THEN IF v \in ef
                THEN [st EXCEPT !.calls = called, !.err = EncErr(v)]
                ELSE EncodeLoop(versions, a, ef, i + 1,
                       [st EXCEPT !.calls = called,
                                  !.payload = MapPut(@, v, EncodeV2(a))])
           ELSE EncodeLoop(versions, a, ef, i + 1,
                  [st EXCEPT !.payload = MapPut(@, v, NilBytes)])

NoCalls == [v \in APIVersions |-> 0]
EmptyMap == [v \in {} |-> NilBytes]
EncodeStart == [payload |-> EmptyMap, calls |-> NoCalls, err |-> NoErr]

\* ------------------------------------------------------------ dispatching
\* The (alertmanager, endpoint) pairs in the order of the nested loop of
\* lines 180-181.
RECURSIVE UnitList(_, _)
UnitList(ams, i) ==
  IF i > Len(ams) THEN <<>>
  ELSE [j \in 1..ams[i].endpoints |-> [am |-> i, ep |-> j]] \o UnitList(ams, i + 1)

NumUnits == Len(UnitList(fwder.alertmanagers, 1))

\* IsEmptyBatch with the test never true.
IsEmptyBatchNever(a) == Len(a) < 0

\* len(alerts) == 0, line 138
IsEmptyBatch(a) == Len(a) = 0

\* resp.StatusCode/100 != 2, line 84
IsSuccessStatus(code) == code \div 100 = 2

\* The statuses an upstream answers with: one inside 2xx that is not 200, and
\* one outside 2xx.
StatusCodes == {204, 404}

\* WithTimeout with a timeout of zero read as no timeout at all: the request
\* is bound by the caller's deadline only.
WithTimeoutZeroIsNone(parent, timeout, t) ==
  IF timeout = 0
  THEN IF parent.deadline = NoDeadline THEN MaxTime + MaxTimeout + 1
       ELSE parent.deadline
  ELSE IF parent.deadline = NoDeadline THEN t + timeout
  ELSE Min(parent.deadline, t + timeout)

\* context.WithTimeout(ctx, am.timeout), line 72: the deadline of the derived
\* context is the sooner of the parent's deadline and now + timeout.
WithTimeout(parent, timeout, t) ==
  IF parent.deadline = NoDeadline THEN t + timeout
  ELSE Min(parent.deadline, t + timeout)

\* CtxDone with one context shared by all goroutines: the first deadline to
\* pass cancels every request.
CtxDoneShared(u) ==
  \/ ctx.cancelled
  \/ \E v \in 1..Len(units) : units[v].st # "running" /\ units[v].dos > 0
                                /\ now >= units[v].dl

\* CtxDone with the request sent without a context: nothing ends it but the
\* answer of the endpoint.
CtxDoneNever(u) == FALSE

\* CtxDone with the request context derived from context.Background().
CtxDoneIgnoresCaller(u) == now >= units[u].dl

\* The derived context of unit u is done when its deadline has passed or the
\* parent context was cancelled.
CtxDone(u) == ctx.cancelled \/ now >= units[u].dl

\* ForwardVerdict demanding that every endpoint succeeded.
ForwardVerdictAllOrNothing(ns, a) ==
  IF ns > 0 /\ ns = NumUnits THEN NoErr ELSE AllFailedErr(Len(a))

\* ForwardVerdict with nothing to send to taken as a success.
ForwardVerdictVacuousNil(ns, a) ==
  IF ns > 0 \/ NumUnits = 0 THEN NoErr ELSE AllFailedErr(Len(a))

\* ForwardVerdict with the failure forgotten.
ForwardVerdictAlwaysNil(ns, a) == NoErr

\* fmt.Sprintf("/api/%s/alerts", string(am.version)), line 187
ApiPath(version) == <<"api", version, "alerts">>

\* The Path of the goroutine's URL after line 187.
PostPath(u) ==
  PathJoin(fwder.alertmanagers[units[u].am].paths[units[u].ep],
           ApiPath(fwder.alertmanagers[units[u].am].version))

\* AfterPathJoin with the goroutine given the pointer u instead of the copy
\* *u: the assignment changes the endpoint of the Forwarder.
AfterPathJoinAliased(u) ==
  [fwder EXCEPT !.alertmanagers[units[u].am].paths[units[u].ep] = PostPath(u)]

\* The Forwarder after line 187: the goroutine's u is a copy of *u (line
\* 200), so the assignment to u.Path leaves the endpoint as it was.
AfterPathJoin(u) == fwder

\* lines 204-208
ForwardVerdict(ns, a) == IF ns > 0 THEN NoErr ELSE AllFailedErr(Len(a))

\* the goroutine of the next (alertmanager, endpoint) pair, as launched
NewUnit(k) ==
  LET p == UnitList(fwder.alertmanagers, 1)[k]
  IN  [am |-> p.am, ep |-> p.ep, st |-> "running", res |-> "none", dl |-> 0,
       calls |-> 0, dos |-> 0, body |-> NilBytes, url |-> <<>>,
       code |-> 0, closed |-> 0]

NoResult == [kind |-> "none"]

\* An http.ResponseWriter nothing was written to.
NoWriter == [status |-> 0, body |-> <<>>]

\* ---------------------------------------------------------------- actions
\* Forward from its entry to the start of the dispatch loop (lines 137-179).
ForwardEnter(a, c, ef) ==
  /\ alerts' = a
  /\ ctx' = c
  /\ now' = 0
  /\ units' = <<>>
  /\ wg' = 0
  /\ numSuccess' = 0
  /\ IF IsEmptyBatch(a)
     THEN /\ payload' = EmptyMap
          /\ encCalls' = NoCalls
          /\ result' = NoErr
          /\ fpc' = "returned"
     ELSE LET st == EncodeLoop(fwder.versions, a, ef, 1, EncodeStart)
          IN  /\ payload' = st.payload
              /\ encCalls' = st.calls
              /\ IF st.err # NoErr
                 THEN /\ result' = st.err
                      /\ fpc' = "returned"
                 ELSE /\ result' = NoResult
                      /\ fpc' = IF NumUnits = 0 THEN "wait" ELSE "spawn"

\* A caller other than the webhook: any batch, any context.
ForwardCall ==
  /\ proc = "none"
  /\ fpc = "idle"
  /\ \E a \in AlertBatches, c \in Contexts, ef \in SUBSET {APIv1, APIv2} :
       ForwardEnter(a, c, ef)
  /\ UNCHANGED <<fwder, cfg, frames, proc, hpc, w>>

\* One iteration of the nested loop: wg.Add(1) and the go statement.
Spawn ==
  /\ fpc = "spawn"
  /\ Len(units) < NumUnits
  /\ units' = Append(units, NewUnit(Len(units) + 1))
  /\ wg' = wg + 1
  /\ fpc' = IF Len(units) + 1 = NumUnits THEN "wait" ELSE "spawn"
  /\ UNCHANGED <<fwder, alerts, ctx, payload, encCalls, numSuccess,
                 result, now, cfg, frames, proc, hpc, w>>

UnitVars == <<alerts, ctx, payload, encCalls, fpc, result, now,
              cfg, frames, proc, hpc, w>>

\* The goroutine joins the API path to its URL (line 187) and enters
\* postAlerts (line 189): http.NewRequest rejects the URL (lines 68-71), which
\* ends the goroutine (lines 190-196 and the deferred wg.Done), or the request
\* is handed to client.Do (line 77).
UnitPost(u) ==
  /\ units[u].st = "running"
  /\ fwder' = AfterPathJoin(u)
  /\ \/ /\ units' = [units EXCEPT ![u].st = "done", ![u].res = "request",
                                  ![u].calls = @ + 1, ![u].url = PostPath(u)]
        /\ wg' = wg - 1
     \/ /\ UNCHANGED wg
        /\ units' = [units EXCEPT
              ![u].st = "posting",
              ![u].calls = @ + 1,
              ![u].dos = @ + 1,
              ![u].url = PostPath(u),
              ![u].dl = WithTimeout(ctx, fwder.alertmanagers[units[u].am].timeout, now),
              ![u].body = MapGet(payload, fwder.alertmanagers[units[u].am].version)]
  /\ UNCHANGED numSuccess
  /\ UNCHANGED UnitVars

\* UnitFails with the failed endpoint tried again.
UnitFailsRetry(u, r) ==
  /\ units' = [units EXCEPT ![u].st = "running", ![u].res = r]
  /\ UNCHANGED <<wg, numSuccess>>

\* postAlerts returned an error: the goroutine logs it and returns without
\* counting (lines 189-197); the deferred wg.Done() runs (line 184).
UnitFails(u, r) ==
  /\ units' = [units EXCEPT ![u].st = "done", ![u].res = r]
  /\ wg' = wg - 1
  /\ UNCHANGED numSuccess

\* UnitResponse with the body closed at the end of postAlerts instead of by
\* a defer: the early return of line 85 leaves it open.
UnitResponseLeaksBody(u) ==
  /\ units[u].st = "posting"
  /\ ~CtxDone(u)
  /\ \E code \in StatusCodes :
       IF IsSuccessStatus(code)
       THEN /\ units' = [units EXCEPT ![u].st = "returned", ![u].res = "ok",
                                      ![u].code = code, ![u].closed = @ + 1]
            /\ UNCHANGED <<wg, numSuccess>>
       ELSE /\ units' = [units EXCEPT ![u].st = "done", ![u].res = "status",
                                      ![u].code = code]
            /\ wg' = wg - 1
            /\ UNCHANGED numSuccess
  /\ UNCHANGED fwder
  /\ UNCHANGED UnitVars

\* client.Do returns a response (lines 77-87): postAlerts returns nil for a
\* 2xx status and an error for any other, and the deferred resp.Body.Close()
\* of line 81 runs on either return.
UnitResponse(u) ==
  /\ units[u].st = "posting"
  /\ ~CtxDone(u)
  /\ \E code \in StatusCodes :
       IF IsSuccessStatus(code)
       THEN /\ units' = [units EXCEPT ![u].st = "returned", ![u].res = "ok",
                                      ![u].code = code, ![u].closed = @ + 1]
            /\ UNCHANGED <<wg, numSuccess>>
       ELSE /\ units' = [units EXCEPT ![u].st = "done", ![u].res = "status",
                                      ![u].code = code, ![u].closed = @ + 1]
            /\ wg' = wg - 1
            /\ UNCHANGED numSuccess
  /\ UNCHANGED fwder
  /\ UNCHANGED UnitVars

\* client.Do fails: connection refused, DNS, TLS (lines 78-80).
UnitTransportErr(u) ==
  /\ units[u].st = "posting"
  /\ UnitFails(u, "transport")
  /\ UNCHANGED fwder
  /\ UNCHANGED UnitVars

\* client.Do fails because the request's context is done (lines 72-80).
UnitCtxErr(u) ==
  /\ units[u].st = "posting"
  /\ CtxDone(u)
  /\ UnitFails(u, "ctx")
  /\ UNCHANGED fwder
  /\ UNCHANGED UnitVars

\* UnitInc as a read and a write of a plain integer, the write lost when
\* another goroutine has counted already.
UnitIncLost(u) ==
  /\ units[u].st = "returned"
  /\ numSuccess' = IF numSuccess = 0 THEN 1 ELSE numSuccess
  /\ units' = [units EXCEPT ![u].st = "counted"]
  /\ UNCHANGED <<wg, fwder>>
  /\ UNCHANGED UnitVars

\* UnitInc with wg.Done() called before numSuccess.Inc(): the goroutine has
\* signalled the barrier and its increment is still to come.
UnitIncAfterDone(u) ==
  /\ units[u].st = "returned"
  /\ wg' = wg - 1
  /\ units' = [units EXCEPT ![u].st = "signalled"]
  /\ UNCHANGED <<numSuccess, fwder>>
  /\ UNCHANGED UnitVars

\* numSuccess.Inc(), line 198
UnitInc(u) ==
  /\ units[u].st = "returned"
  /\ numSuccess' = numSuccess + 1
  /\ units' = [units EXCEPT ![u].st = "counted"]
  /\ UNCHANGED <<wg, fwder>>
  /\ UNCHANGED UnitVars

\* the deferred wg.Done() of a goroutine that counted its success, line 184
UnitDone(u) ==
  /\ units[u].st = "counted"
  /\ wg' = wg - 1
  /\ units' = [units EXCEPT ![u].st = "done"]
  /\ UNCHANGED <<numSuccess, fwder>>
  /\ UNCHANGED UnitVars

\* WaitReleased with Forward waiting for the first goroutine only.
WaitReleasedByFirst(n) == n < NumUnits \/ NumUnits = 0

\* wg.Wait() blocks until the WaitGroup counter is zero (line 202).
WaitReleased(n) == n = 0

\* wg.Wait() returns and the counter is read (lines 202-208).
ForwardWait ==
  /\ fpc = "wait"
  /\ WaitReleased(wg)
  /\ result' = ForwardVerdict(numSuccess, alerts)
  /\ fpc' = "returned"
  /\ UNCHANGED <<fwder, alerts, ctx, payload, encCalls, units, wg,
                 numSuccess, now, cfg, frames, proc, hpc, w>>

\* The state of a Forwarder on which no call is running.
ForwardIdle ==
  /\ alerts' = <<>>
  /\ ctx' = ContextTODO
  /\ fpc' = "idle"
  /\ payload' = EmptyMap
  /\ encCalls' = NoCalls
  /\ units' = <<>>
  /\ wg' = 0
  /\ numSuccess' = 0
  /\ result' = NoResult
  /\ now' = 0

\* The caller takes the returned error; the call's locals are gone.
ForwardReturn ==
  /\ proc = "none"
  /\ fpc = "returned"
  /\ ForwardIdle
  /\ UNCHANGED <<fwder, cfg, frames, proc, hpc, w>>

\* The caller cancels its context while the call is running.
CancelCtx ==
  /\ proc = "none"
  /\ fpc \in {"spawn", "wait"}
  /\ ~ctx.cancelled
  /\ ctx' = [ctx EXCEPT !.cancelled = TRUE]
  /\ UNCHANGED <<fwder, alerts, fpc, payload, encCalls, units, wg,
                 numSuccess, result, now, cfg, frames, proc, hpc, w>>

\* Time passes while the call is running: MaxTime ticks are followed, and
\* beyond them the ticks up to the deadline of a request in flight, so that
\* every timeout can elapse.
Tick ==
  /\ fpc \in {"spawn", "wait"}
  /\ \/ now < MaxTime
     \/ \E u \in 1..Len(units) : units[u].st = "posting" /\ now < units[u].dl
  /\ now' = now + 1
  /\ UNCHANGED <<fwder, alerts, ctx, fpc, payload, encCalls, units,
                 wg, numSuccess, result, cfg, frames, proc, hpc, w>>

Post         == \E u \in 1..Len(units) : UnitPost(u)
Response     == \E u \in 1..Len(units) : UnitResponse(u)
TransportErr == \E u \in 1..Len(units) : UnitTransportErr(u)
CtxErr       == \E u \in 1..Len(units) : UnitCtxErr(u)
Inc          == \E u \in 1..Len(units) : UnitInc(u)
Done         == \E u \in 1..Len(units) : UnitDone(u)

\* ---------------------------------------------------------------- start-up
\* AlertmanagerConfig, reduced to what NewAlertmanager reads: whether
\* createHTTPClient accepts http_config, the static addresses (absent, or a
\* list of 0..MaxEndpoints addresses), the timeout and the API version.
NilAddresses == -1
AlertmanagerConfigs == [client : {"ok", "err"},
                        addresses : {NilAddresses} \cup 0..MaxEndpoints,
                        timeout : 0..MaxTimeout,
                        version : APIVersions]

\* The configuration file: loadAlertingConfig fails (unreadable, not strict
\* YAML) or yields the list of alertmanagers.
AlertingConfigs ==
  {c \in [load : {"ok", "err"},
          alertmanagers : SeqsUpTo(AlertmanagerConfigs, MaxTargets)] :
     /\ c.load = "err" => c.alertmanagers = <<>>
     /\ SumEndpoints([i \in 1..Len(c.alertmanagers) |->
           [endpoints |-> IF c.alertmanagers[i].addresses = NilAddresses
                          THEN 0 ELSE c.alertmanagers[i].addresses]], 1)
          <= MaxUnits}

NoAlertmanager == [endpoints |-> 0, timeout |-> 0, version |-> "",
                   paths |-> <<>>]

\* NewAlertmanager, lines 35-64
NewAlertmanager(amcfg) ==
  IF amcfg.client = "err"
  THEN [err |-> TRUE, am |-> NoAlertmanager]
  ELSE IF amcfg.addresses = NilAddresses
  THEN [err |-> TRUE, am |-> NoAlertmanager]
  ELSE [err |-> FALSE,
        am |-> [endpoints |-> amcfg.addresses, timeout |-> amcfg.timeout,
                version |-> amcfg.version,
                paths |-> [j \in 1..amcfg.addresses |-> BasePath]]]

\* The loop of lines 108-115 from index i on: the first alertmanager that
\* cannot be built ends NewForwarder with an error.
RECURSIVE BuildAlertmanagers(_, _, _)
BuildAlertmanagers(amcfgs, i, built) ==
  IF i > Len(amcfgs) THEN [err |-> FALSE, alertmanagers |-> built]
  ELSE LET r == NewAlertmanager(amcfgs[i])
       IN  IF r.err THEN [err |-> TRUE, alertmanagers |-> <<>>]
           ELSE BuildAlertmanagers(amcfgs, i + 1, Append(built, r.am))

\* A Go map value: the nil map of a bare var declaration, or a set of keys.
NilMap == [nil |-> TRUE, keys |-> {}]
MapFound(m, k) == k \in m.keys

\* The loop of lines 121-127 from index i on. versionPresent is declared at
\* line 119 and never made: reading it finds nothing, assigning to it panics
\* ("assignment to entry in nil map").
RECURSIVE VersionLoop(_, _, _, _)
VersionLoop(ams, i, versionPresent, versions) ==
  IF i > Len(ams) THEN [panic |-> FALSE, versions |-> versions]
  ELSE LET v == ams[i].version
       IN  IF MapFound(versionPresent, v)
           THEN VersionLoop(ams, i + 1, versionPresent, versions)
           ELSE IF versionPresent.nil
           THEN [panic |-> TRUE, versions |-> versions]
           ELSE VersionLoop(ams, i + 1,
                            [versionPresent EXCEPT !.keys = @ \cup {v}],
                            Append(versions, v))

NilForwarder == [alertmanagers |-> <<>>, versions |-> <<>>]

\* NewForwarder, lines 98-134: an error, a panic, or the Forwarder.
NewForwarder(c) ==
  IF c.load = "err" THEN [outcome |-> "err", fwder |-> NilForwarder]
  ELSE LET b == BuildAlertmanagers(c.alertmanagers, 1, <<>>)
       IN  IF b.err THEN [outcome |-> "err", fwder |-> NilForwarder]
           ELSE LET v == VersionLoop(b.alertmanagers, 1, NilMap, <<>>)
                IN  IF v.panic
                    THEN [outcome |-> "panic", fwder |-> NilForwarder]
                    ELSE [outcome |-> "ok",
                          fwder |-> [alertmanagers |-> b.alertmanagers,
                                     versions |-> v.versions]]

CallVars == <<alerts, ctx, fpc, payload, encCalls, units, wg, numSuccess,
              result, now>>

\* main calls NewForwarder (line 50 of cmd/main.go), which loads the
\* configuration and builds the alertmanagers (lines 99-115): an error exits
\* with status 1 (lines 51-55 of cmd/main.go); otherwise the local slice
\* alertmanagers is complete and NewForwarder is about to build the version
\* list.
MainBuildAlertmanagers ==
  /\ proc = "main"
  /\ LET b == BuildAlertmanagers(cfg.alertmanagers, 1, <<>>)
     IN  IF cfg.load = "err" \/ b.err
         THEN /\ fwder' = NilForwarder
              /\ proc' = "exited"
         ELSE /\ fwder' = [alertmanagers |-> b.alertmanagers, versions |-> <<>>]
              /\ proc' = "built"
  /\ UNCHANGED <<cfg, frames, hpc, w>>
  /\ UNCHANGED CallVars

\* The rest of NewForwarder (lines 117-133) and main, lines 50-55 of
\* cmd/main.go: a panic kills the process.
MainNewForwarder ==
  /\ proc = "built"
  /\ LET r == NewForwarder(cfg)
     IN  /\ fwder' = r.fwder
         /\ proc' = IF r.outcome = "ok" THEN "webhook"
                    ELSE IF r.outcome = "err" THEN "exited" ELSE "panicked"
  /\ UNCHANGED <<cfg, frames, hpc, w>>
  /\ UNCHANGED CallVars

\* main, lines 57-70: NewWebhook loads the key pair and Run listens; either
\* can fail, which exits the process.
MainStartWebhook ==
  /\ proc = "webhook"
  /\ proc' \in {"serving", "exited"}
  /\ UNCHANGED <<fwder, cfg, frames, hpc, w>>
  /\ UNCHANGED CallVars

\* main, lines 74-82: a shutdown signal stops the server once no request is
\* being served.
MainShutdown ==
  /\ proc = "serving"
  /\ hpc # "forwarding"
  /\ proc' = "exited"
  /\ UNCHANGED <<fwder, cfg, frames, hpc, w>>
  /\ UNCHANGED CallVars

\* ------------------------------------------------------------ the webhook
\* asJson, lines 119-129 of the webhook: WriteHeader sets the status of the
\* response unless a header was written before, and the JSON text is
\* appended to the body.
asJson(rw, status, message) ==
  [status |-> IF rw.status = 0 THEN status ELSE rw.status,
   body |-> Append(rw.body, [Status |-> status, Message |-> message])]

\* Serve, lines 73-102: a body that does not decode is answered with 400;
\* otherwise Forward is called with context.TODO() and the decoded alerts.
ServeRequest ==
  /\ proc = "serving"
  /\ hpc \in {"idle", "done"}
  /\ \/ /\ w' = asJson(NoWriter, 400, "decode")
        /\ hpc' = "done"
        /\ ForwardIdle
     \/ /\ \E a \in AlertBatches, ef \in SUBSET {APIv1, APIv2} :
             ForwardEnter(a, ContextTODO, ef)
        /\ w' = NoWriter
        /\ hpc' = "forwarding"
  /\ UNCHANGED <<fwder, cfg, frames, proc>>

\* Serve, lines 102-106: Forward has returned; on an error the 500 response
\* is written, and then, with no return in between, the 200 response.
ServeRespond ==
  /\ hpc = "forwarding"
  /\ fpc = "returned"
  /\ w' = IF result # NoErr
          THEN asJson(asJson(w, 500, result.kind), 200, "success")
          ELSE asJson(w, 200, "success")
  /\ hpc' = "done"
  /\ UNCHANGED <<fwder, cfg, frames, proc>>
  /\ UNCHANGED CallVars

NoConfig == [load |-> "none", alertmanagers |-> <<>>]

IdleCall ==
  /\ alerts = <<>>
  /\ ctx = ContextTODO
  /\ fpc = "idle"
  /\ payload = EmptyMap
  /\ encCalls = NoCalls
  /\ units = <<>>
  /\ wg = 0
  /\ numSuccess = 0
  /\ result = NoResult
  /\ now = 0

\* Forward as a method of any Forwarder value.
Init ==
  /\ fwder \in Forwarders
  /\ IdleCall
  /\ frames = <<>>
  /\ cfg = NoConfig
  /\ proc = "none"
  /\ hpc = "idle"
  /\ w = NoWriter

Next ==
  \/ ForwardCall
  \/ Spawn
  \/ Post
  \/ Response
  \/ TransportErr
  \/ CtxErr
  \/ Inc
  \/ Done
  \/ ForwardWait
  \/ ForwardReturn
  \/ CancelCtx
  \/ Tick

Spec == Init /\ [][Next]_vars

\* The process, from main() on, started with any configuration file.
InitProgram ==
  /\ cfg \in AlertingConfigs
  /\ fwder = NilForwarder
  /\ IdleCall
  /\ frames = <<>>
  /\ proc = "main"
  /\ hpc = "idle"
  /\ w = NoWriter

\* No dispatch goroutine is among the steps of the process: NewForwarder
\* returns a Forwarder only for a configuration without alertmanagers
\* (ProgramHasNoTargets), so the loop of lines 180-201 has nothing to launch.
NextProgram ==
  \/ MainBuildAlertmanagers
  \/ MainNewForwarder
  \/ MainStartWebhook
  \/ MainShutdown
  \/ ServeRequest
  \/ ForwardWait
  \/ ServeRespond
  \/ Tick

SpecProgram == InitProgram /\ [][NextProgram]_vars

\* Whenever the process is past NewForwarder, its Forwarder has no
\* alertmanager and no version.
ProgramHasNoTargets ==
  proc \in {"webhook", "serving"} => fwder = NilForwarder

\* ---------------------------------------------------------- fair scheduling
\* Forward as a method, with the Go scheduler and the clock fair: a goroutine
\* that can take a step takes it, wg.Wait() returns once the counter is zero,
\* time passes, and a request whose context is done is ended by it. The
\* endpoints owe nothing: Response and TransportErr may never happen.
LiveForwarders ==
  {fw \in Forwarders : SumEndpoints(fw.alertmanagers, 1) <= MaxLiveUnits}

InitLive ==
  /\ fwder \in LiveForwarders
  /\ IdleCall
  /\ frames = <<>>
  /\ cfg = NoConfig
  /\ proc = "none"
  /\ hpc = "idle"
  /\ w = NoWriter

Fairness ==
  /\ WF_vars(Spawn)
  /\ WF_vars(Post)
  /\ WF_vars(CtxErr)
  /\ WF_vars(Inc)
  /\ WF_vars(Done)
  /\ WF_vars(ForwardWait)
  /\ WF_vars(Tick)

SpecLive == InitLive /\ [][Next]_vars /\ Fairness

\* ------------------------------------------------------------ the encoders
\* Forward up to the end of the version loop, on batches of several different
\* alerts: the Forwarders have no endpoint, so nothing is dispatched.
EncodeBatches == SeqsUpTo({AlertFoo, AlertBare}, MaxBatch)

EncodeForwarders == {fw \in Forwarders : SumEndpoints(fw.alertmanagers, 1) = 0}

EncodeCall ==
  /\ proc = "none"
  /\ fpc = "idle"
  /\ \E a \in EncodeBatches, ef \in SUBSET {APIv1, APIv2} :
       ForwardEnter(a, ContextTODO, ef)
  /\ UNCHANGED <<fwder, cfg, frames, proc, hpc, w>>

InitEncode ==
  /\ fwder \in EncodeForwarders
  /\ IdleCall
  /\ frames = <<>>
  /\ cfg = NoConfig
  /\ proc = "none"
  /\ hpc = "idle"
  /\ w = NoWriter

NextEncode ==
  \/ EncodeCall
  \/ ForwardWait
  \/ ForwardReturn

SpecEncode == InitEncode /\ [][NextEncode]_vars

\* ------------------------------------------------------- concurrent calls
\* net/http serves every request on a goroutine of its own, so Serve, and with
\* it Forward, runs any number of times side by side on the one Forwarder.
\* frames[c] holds the locals of call c. The goroutines of a call are
\* followed to the outcome of postAlerts only: a success or a failure.
IdleFrame == [fpc |-> "idle", alerts |-> <<>>, payload |-> EmptyMap,
              units |-> <<>>, wg |-> 0, numSuccess |-> 0, result |-> NoResult]

\* The batches of concurrent calls: two calls can carry different alerts.
FrameBatches == SeqsUpTo({AlertFoo, AlertBare}, MaxAlerts)

\* The Forwarders called concurrently; the timeouts play no part here.
FrameForwarders ==
  {fw \in Forwarders :
     /\ SumEndpoints(fw.alertmanagers, 1) <= MaxCallUnits
     /\ \A i \in 1..Len(fw.alertmanagers) :
          fw.alertmanagers[i].timeout = MaxTimeout}

\* CounterOwner with numSuccess declared at package level: one counter for
\* every call.
CounterOwnerShared(c) == 1

\* var numSuccess atomic.Uint64 is declared inside Forward (lines 176-179):
\* the counter call c increments and reads is its own.
CounterOwner(c) == c

\* Forward from its entry to the start of the dispatch loop (lines 137-179).
FrameEnter(c) ==
  /\ frames[c].fpc = "idle"
  /\ \E a \in FrameBatches, ef \in SUBSET {APIv1, APIv2} :
       LET st == EncodeLoop(fwder.versions, a, ef, 1, EncodeStart)
       IN  frames' = [frames EXCEPT ![c] =
             IF IsEmptyBatch(a)
             THEN [IdleFrame EXCEPT !.fpc = "returned", !.result = NoErr]
             ELSE IF st.err # NoErr
             THEN [IdleFrame EXCEPT !.fpc = "returned", !.alerts = a,
                                    !.payload = st.payload, !.result = st.err]
             ELSE [IdleFrame EXCEPT
                     !.fpc = IF NumUnits = 0 THEN "wait" ELSE "spawn",
                     !.alerts = a, !.payload = st.payload]]

\* One iteration of the nested loop: wg.Add(1) and the go statement; the
\* goroutine is in postAlerts.
FrameSpawn(c) ==
  /\ frames[c].fpc = "spawn"
  /\ LET k == Len(frames[c].units) + 1
         p == UnitList(fwder.alertmanagers, 1)[k]
     IN  frames' = [frames EXCEPT
           ![c].units = Append(@, [am |-> p.am, ep |-> p.ep, st |-> "posting",
                                   res |-> "none"]),
           ![c].wg = @ + 1,
           ![c].fpc = IF k = NumUnits THEN "wait" ELSE "spawn"]

\* postAlerts returns nil (line 87).
FrameSucceed(c, u) ==
  /\ frames[c].units[u].st = "posting"
  /\ frames' = [frames EXCEPT ![c].units[u].st = "returned",
                              ![c].units[u].res = "ok"]

\* postAlerts returns an error; the goroutine returns and its deferred
\* wg.Done() runs (lines 184, 189-197).
FrameFail(c, u) ==
  /\ frames[c].units[u].st = "posting"
  /\ frames' = [frames EXCEPT ![c].units[u].st = "done",
                              ![c].units[u].res = "failed",
                              ![c].wg = @ - 1]

\* numSuccess.Inc(), line 198
FrameInc(c, u) ==
  /\ frames[c].units[u].st = "returned"
  /\ frames' = [[frames EXCEPT ![c].units[u].st = "counted"]
                  EXCEPT ![CounterOwner(c)].numSuccess = @ + 1]

\* the deferred wg.Done() of a goroutine that counted its success, line 184
FrameDone(c, u) ==
  /\ frames[c].units[u].st = "counted"
  /\ frames' = [frames EXCEPT ![c].units[u].st = "done", ![c].wg = @ - 1]

\* wg.Wait() returns and the counter is read (lines 202-208).
FrameWait(c) ==
  /\ frames[c].fpc = "wait"
  /\ WaitReleased(frames[c].wg)
  /\ frames' = [frames EXCEPT
        ![c].fpc = "returned",
        ![c].result = ForwardVerdict(frames[CounterOwner(c)].numSuccess,
                                     frames[c].alerts)]

\* The caller takes the returned error; the call's locals are gone.
FrameReturn(c) ==
  /\ frames[c].fpc = "returned"
  /\ frames' = [frames EXCEPT ![c] = IdleFrame]

FrameVars == <<fwder, alerts, ctx, fpc, payload, encCalls, units,
               wg, numSuccess, result, now, cfg, proc, hpc, w>>

ConcEnter   == (\E c \in 1..MaxCalls : FrameEnter(c)) /\ UNCHANGED FrameVars
ConcSpawn   == (\E c \in 1..MaxCalls : FrameSpawn(c)) /\ UNCHANGED FrameVars
ConcSucceed == /\ \E c \in 1..MaxCalls :
                    \E u \in 1..Len(frames[c].units) : FrameSucceed(c, u)
               /\ UNCHANGED FrameVars
ConcFail    == /\ \E c \in 1..MaxCalls :
                    \E u \in 1..Len(frames[c].units) : FrameFail(c, u)
               /\ UNCHANGED FrameVars
ConcInc     == /\ \E c \in 1..MaxCalls :
                    \E u \in 1..Len(frames[c].units) : FrameInc(c, u)
               /\ UNCHANGED FrameVars
ConcDone    == /\ \E c \in 1..MaxCalls :
                    \E u \in 1..Len(frames[c].units) : FrameDone(c, u)
               /\ UNCHANGED FrameVars
ConcWait    == (\E c \in 1..MaxCalls : FrameWait(c)) /\ UNCHANGED FrameVars
ConcReturn  == (\E c \in 1..MaxCalls : FrameReturn(c)) /\ UNCHANGED FrameVars

\* MaxCalls requests served side by side by one Forwarder.
InitConcurrent ==
  /\ fwder \in FrameForwarders
  /\ IdleCall
  /\ frames = [c \in 1..MaxCalls |-> IdleFrame]
  /\ cfg = NoConfig
  /\ proc = "none"
  /\ hpc = "idle"
  /\ w = NoWriter

NextConcurrent ==
  \/ ConcEnter
  \/ ConcSpawn
  \/ ConcSucceed
  \/ ConcFail
  \/ ConcInc
  \/ ConcDone
  \/ ConcWait
  \/ ConcReturn

SpecConcurrent == InitConcurrent /\ [][NextConcurrent]_vars

\* ------------------------------------------------------------------ claims
Returned == fpc = "returned"

\* Forward got past the encoders: its verdict is the one of lines 204-208.
Dispatched == Returned /\ Len(alerts) > 0 /\ result.kind \in {"nil", "allfailed"}

Failures == {"status", "transport", "ctx", "request"}

UnitsWith(rs) == {u \in 1..Len(units) : units[u].res \in rs}

\* C1: when Forward of a non-empty batch has returned and at least one
\* dispatched endpoint answered 2xx, the error returned is nil, however many
\* of the other endpoints failed.
C1_AnySuccessIsSuccess ==
  (Returned /\ Len(alerts) > 0 /\ UnitsWith({"ok"}) # {})
     => result = NoErr

\* Three endpoints, one answered 2xx, one a non-2xx status and one failed in
\* transport, and Forward has returned.
C1_Witness ==
  /\ Returned
  /\ Len(units) = 3
  /\ Cardinality(UnitsWith({"ok"})) = 1
  /\ UnitsWith({"status"}) # {}
  /\ UnitsWith({"transport"}) # {}
  /\ result = NoErr

\* C2: when Forward of a non-empty batch has returned with all its N >= 1
\* dispatches failed, the error is the all-endpoints-failed error carrying
\* the batch size; and that error is returned only with a success count of 0.
C2_AllFailedIsError ==
  /\ (Returned /\ Len(alerts) > 0 /\ NumUnits >= 1
        /\ Len(units) = NumUnits /\ UnitsWith(Failures) = 1..NumUnits)
       => result = AllFailedErr(Len(alerts))
  /\ (Returned /\ result.kind = "allfailed")
       => numSuccess = 0 /\ UnitsWith({"ok"}) = {}

\* Two or more endpoints, every one failed, one of them by its context, and
\* Forward has returned the error.
C2_Witness ==
  /\ Returned
  /\ NumUnits >= 2
  /\ UnitsWith(Failures) = 1..NumUnits
  /\ UnitsWith({"ctx"}) # {}
  /\ UnitsWith({"status"}) # {}
  /\ result = AllFailedErr(1)

\* C3: Forward of an empty batch returns nil, launches no goroutine, issues
\* no POST and invokes no encoder, whatever targets are configured.
C3_EmptyBatchNoOp ==
  (Returned /\ Len(alerts) = 0)
     => /\ result = NoErr
        /\ units = <<>>
        /\ wg = 0
        /\ encCalls = NoCalls
        /\ payload = EmptyMap

\* Forward of an empty batch has returned on a Forwarder with endpoints and
\* with versions to encode.
C3_Witness ==
  /\ Returned
  /\ Len(alerts) = 0
  /\ NumUnits >= 2
  /\ \E i \in 1..Len(fwder.versions) : fwder.versions[i] \in {APIv1, APIv2}
  /\ result = NoErr

EncodingFailed(v) == encCalls[v] > 0 /\ v \notin DOMAIN payload

\* C6: when the encoder of a version fails, Forward returns that encoding
\* error and nothing is dispatched: no goroutine is launched and no POST is
\* issued, also for a version that was encoded before the failure.
C6_EncodingErrorAborts ==
  /\ \A v \in {APIv1, APIv2} :
       (fpc # "idle" /\ EncodingFailed(v))
          => /\ Returned
             /\ result = EncErr(v)
             /\ units = <<>>
             /\ wg = 0
  /\ (Returned /\ result.kind = "encoding") => units = <<>>

\* Forward has returned the error of the second version's encoder, the first
\* version's payload being built, on a Forwarder with endpoints of both.
C6_Witness ==
  /\ Returned
  /\ result.kind = "encoding"
  /\ DOMAIN payload # {}
  /\ \E v \in {APIv1, APIv2} : EncodingFailed(v) /\ v \notin DOMAIN payload
  /\ NumUnits >= 2
  /\ \A i \in 1..Len(fwder.alertmanagers) : fwder.alertmanagers[i].endpoints > 0

\* Every alertmanager of the configuration can be built.
ConfigValid(c) ==
  /\ c.load = "ok"
  /\ \A i \in 1..Len(c.alertmanagers) : ~NewAlertmanager(c.alertmanagers[i]).err

ConfigVersions(c) == {c.alertmanagers[i].version : i \in 1..Len(c.alertmanagers)}

\* The encoder invocations of one Forward call of a non-empty batch on the
\* Forwarder the process holds.
EncoderCalls(v) ==
  EncodeLoop(fwder.versions, <<AlertFoo>>, {}, 1, EncodeStart).calls[v]

OwnCtxDone(u) == ctx.cancelled \/ now >= units[u].dl

\* C8: a request is ended by its context only when its own deadline has passed
\* or the caller cancelled, never because a sibling's timeout elapsed; and
\* while neither holds, a request in flight can receive its response whatever
\* state its siblings are in.
C8_TimeoutIsolation ==
  \A u \in 1..Len(units) :
     /\ units[u].res = "ctx" => OwnCtxDone(u)
     /\ (units[u].st = "posting" /\ ~OwnCtxDone(u)) => ENABLED UnitResponse(u)

\* One endpoint's timeout has elapsed and ended its request, the caller's
\* context having no deadline and not being cancelled, while a sibling launched
\* after it, with its own deadline still ahead, is in flight.
C8_Witness ==
  /\ ~ctx.cancelled
  /\ ctx.deadline = NoDeadline
  /\ \E u, v \in 1..Len(units) :
       /\ u < v
       /\ units[u].res = "ctx"
       /\ fwder.alertmanagers[units[u].am].timeout > 0
       /\ units[v].st = "posting"
       /\ now < units[v].dl

\* C9: once the caller's context is cancelled, no request in flight receives
\* a response any more and each can only end with the context's error; and
\* the deadline of every request is the sooner of the caller's deadline and
\* the time of the POST plus the target's timeout.
C9_CallerCancelPropagates ==
  /\ [](\A u \in 1..Len(units) :
          (units[u].st = "posting" /\ ctx.cancelled)
             => ~ENABLED UnitResponse(u) /\ ENABLED UnitCtxErr(u))
  /\ [][\A u \in 1..Len(units) :
          /\ (units[u].st = "posting" /\ ctx.cancelled /\ u <= Len(units'))
                => units'[u].res # "ok"
          /\ (units[u].st = "running" /\ u <= Len(units')
                /\ units'[u].st = "posting")
                => /\ units'[u].dl <= now + fwder.alertmanagers[units[u].am].timeout
                   /\ ctx.deadline # NoDeadline => units'[u].dl <= ctx.deadline
                   /\ \/ units'[u].dl
                           = now + fwder.alertmanagers[units[u].am].timeout
                      \/ units'[u].dl = ctx.deadline]_vars

\* The caller has cancelled with two requests in flight whose own deadlines
\* are still ahead.
C9_Witness ==
  /\ ctx.cancelled
  /\ \E u, v \in 1..Len(units) :
       /\ u # v
       /\ units[u].st = "posting" /\ now < units[u].dl
       /\ units[v].st = "posting" /\ now < units[v].dl

\* C10, as claimed (checked under SpecProgram): when Serve has finished a
\* request it called Forward for, exactly one verdict was written to the
\* caller: the failure response if Forward returned an error, the success
\* response if it returned nil.
C10_SingleVerdict ==
  (hpc = "done" /\ Returned)
     => /\ Len(w.body) = 1
        /\ result # NoErr => w.body[1].Status = 500 /\ w.status = 500
        /\ result = NoErr => w.body[1].Status = 200 /\ w.status = 200

\* The goroutines of call c whose POST succeeded.
FrameOk(c) == {u \in 1..Len(frames[c].units) : frames[c].units[u].res = "ok"}

\* The goroutines of call c that have incremented the counter.
FrameCounted(c) ==
  {u \in 1..Len(frames[c].units) : frames[c].units[u].st \in {"counted", "done"}
                                    /\ frames[c].units[u].res = "ok"}

\* C11: Forward calls that run side by side on one Forwarder do not share
\* state. The counter of a call holds the increments of its own goroutines
\* and no others, its payload is the encoding of its own batch, and the error
\* it returns is decided by its own dispatches: nil exactly when one of them
\* succeeded, and otherwise the failure naming the size of its own batch.
C11_CallsIndependent ==
  \A c \in DOMAIN frames :
    /\ frames[c].numSuccess = Cardinality(FrameCounted(c))
    /\ \A v \in DOMAIN frames[c].payload :
         frames[c].payload[v] \in {EncodeV1(frames[c].alerts),
                                   EncodeV2(frames[c].alerts), NilBytes}
    /\ (frames[c].fpc = "returned" /\ frames[c].result.kind \in {"nil", "allfailed"}
          /\ Len(frames[c].alerts) > 0)
         => /\ frames[c].result = NoErr <=> FrameOk(c) # {}
            /\ frames[c].result # NoErr
                 => frames[c].result = AllFailedErr(Len(frames[c].alerts))

\* Two calls with different batches overlap: the first has returned the
\* failure of all its dispatches while the second, not yet returned, has
\* counted a success.
C11_Witness ==
  /\ DOMAIN frames = 1..MaxCalls
  /\ frames[1].fpc = "returned"
  /\ frames[1].result.kind = "allfailed"
  /\ frames[2].fpc \in {"spawn", "wait"}
  /\ frames[2].numSuccess > 0
  /\ Len(frames[2].alerts) > 0
  /\ frames[2].alerts # frames[1].alerts

\* C12: NewAlertmanager fails for a target that declares no address, be the
\* address list absent or empty, so once NewForwarder has built its
\* alertmanagers no target of the configuration is without an address and
\* every alertmanager built has at least one endpoint.
C12_NoAddressNoTarget ==
  proc = "built"
    => /\ \A i \in 1..Len(cfg.alertmanagers) :
            cfg.alertmanagers[i].addresses \notin {NilAddresses, 0}
       /\ \A i \in 1..Len(fwder.alertmanagers) :
            fwder.alertmanagers[i].endpoints >= 1

\* A target whose configuration is invalid: its HTTP client cannot be created,
\* or it declares no address.
TargetInvalid(amcfg) ==
  amcfg.client = "err" \/ amcfg.addresses \in {NilAddresses, 0}

ConfigInvalid(c) ==
  c.load = "err" \/ \E i \in 1..Len(c.alertmanagers) : TargetInvalid(c.alertmanagers[i])

\* C13: with an invalid target in the configuration NewForwarder returns an
\* error and no Forwarder and the process exits: it is never past the target
\* loop of NewForwarder, never holds a target, never serves a request and
\* never runs Forward.
C13_InvalidTargetStopsStartup ==
  ConfigInvalid(cfg)
    => /\ proc \in {"main", "exited"}
       /\ fwder = NilForwarder
       /\ hpc = "idle"
       /\ fpc = "idle"

\* The versions of the alertmanager configurations from index i on, each once,
\* in the order of first appearance.
RECURSIVE FirstAppearances(_, _, _)
FirstAppearances(amcfgs, i, seen) ==
  IF i > Len(amcfgs) THEN <<>>
  ELSE IF amcfgs[i].version \in seen
  THEN FirstAppearances(amcfgs, i + 1, seen)
  ELSE <<amcfgs[i].version>>
         \o FirstAppearances(amcfgs, i + 1, seen \cup {amcfgs[i].version})

\* C17: for a configuration whose targets are all valid, NewForwarder
\* completes: the process does not die in it, and once it is past NewForwarder
\* the Forwarder holds one alertmanager per target and the version list with
\* every configured version once, in the order of first appearance.
C17_VersionListBuilt ==
  (~ConfigInvalid(cfg) /\ proc \notin {"main", "built"})
    => /\ proc # "panicked"
       /\ Len(fwder.alertmanagers) = Len(cfg.alertmanagers)
       /\ fwder.versions = FirstAppearances(cfg.alertmanagers, 1, {})

Unfinished == {u \in 1..Len(units) : units[u].st # "done"}

\* C15: Forward returns only after every goroutine it launched has finished.
\* While a launched goroutine is unfinished the call has not returned, be
\* there already a success or a failure among the others; and when the call
\* has returned after dispatching, all the pairs were launched, all the
\* goroutines are finished and the WaitGroup counter is zero.
C15_ReturnsAfterAllUnits ==
  /\ Unfinished # {} => fpc \in {"spawn", "wait"}
  /\ wg = Cardinality(Unfinished)
  /\ Dispatched => /\ Len(units) = NumUnits
                   /\ Unfinished = {}
                   /\ wg = 0

\* All three goroutines are launched, one has finished with a success and one
\* with a failure, the third is still in its POST, and Forward is waiting.
C15_Witness ==
  /\ fpc = "wait"
  /\ Len(units) = 3
  /\ \E u \in 1..3 : units[u].st = "done" /\ units[u].res = "ok"
  /\ \E u \in 1..3 : units[u].st = "done" /\ units[u].res \in Failures
  /\ \E u \in 1..3 : units[u].st = "posting"
  /\ wg = 1

\* The goroutines whose POST was answered with a 2xx status.
Answered2xx ==
  {u \in 1..Len(units) : units[u].code \div 100 = 2 /\ units[u].res = "ok"}

\* C16: no increment of the success counter is lost and none comes after the
\* read. At every moment the counter is the number of goroutines that have
\* passed numSuccess.Inc(); when Forward has read it, every goroutine whose
\* POST was answered 2xx has passed the increment, the counter is their
\* number, and the verdict returned is the one of that number.
C16_CounterExactAtRead ==
  /\ numSuccess = Cardinality({u \in Answered2xx :
                                 units[u].st \in {"counted", "done"}})
  /\ Dispatched =>
       /\ \A u \in Answered2xx : units[u].st = "done"
       /\ numSuccess = Cardinality(Answered2xx)
       /\ result = ForwardVerdict(Cardinality(Answered2xx), alerts)
  /\ \A u \in 1..Len(units) :
       units[u].st \in {"returned", "counted"} => u \in Answered2xx

\* Forward has returned after three dispatches, all three answered 2xx and
\* counted.
C16_Witness ==
  /\ Dispatched
  /\ Len(units) = 3
  /\ Answered2xx = 1..3
  /\ numSuccess = 3

\* The version list is the one NewForwarder is written to build: the versions
\* of the alertmanagers, each once, in the order of first appearance.
VersionsComplete == fwder.versions = FirstAppearances(fwder.alertmanagers, 1, {})

\* C18: every request handed to the HTTP client carries the encoding of the
\* running call's batch in the version of the goroutine's target, never an
\* empty body and never the other version's, and goes to the endpoint's base
\* path followed by /api/{version}/alerts.
C18_PostsTargetEncoding ==
  VersionsComplete =>
    \A u \in 1..Len(units) :
      units[u].dos > 0 =>
        LET am == fwder.alertmanagers[units[u].am]
        IN  /\ units[u].body # NilBytes
            /\ units[u].body.version = am.version
            /\ units[u].body \in {EncodeV1(alerts), EncodeV2(alerts)}
            /\ units[u].url = BasePath \o <<"api", am.version, "alerts">>

\* The goroutines whose postAlerts has returned.
PostReturned == {u \in 1..Len(units) : units[u].res # "none"}

EndpointsAsBuilt ==
  \A i \in 1..Len(fwder.alertmanagers) :
    /\ Len(fwder.alertmanagers[i].paths) = fwder.alertmanagers[i].endpoints
    /\ \A j \in 1..Len(fwder.alertmanagers[i].paths) :
         fwder.alertmanagers[i].paths[j] = BasePath

\* C20: no step of a Forward call, of the first call or of a later one,
\* changes the Forwarder: its alertmanagers, their endpoint URLs and its
\* version list stay as they were. So in every call every endpoint is POSTed
\* at the same path, the base path followed by the API suffix, with the
\* suffix in it once.
C20_ForwarderUnchanged ==
  /\ [][fwder' = fwder]_vars
  /\ [](/\ EndpointsAsBuilt
        /\ \A u \in 1..Len(units) :
             units[u].calls > 0 =>
               /\ units[u].url
                    = PathJoin(BasePath,
                               ApiPath(fwder.alertmanagers[units[u].am].version))
               /\ Len(SelectSeq(units[u].url, LAMBDA seg : seg = "api")) = 1)

\* A call has returned after POSTing to both endpoints of a v1 target at the
\* suffixed path, and the endpoints of the Forwarder still have the base path.
C20_Witness ==
  /\ Dispatched
  /\ Len(units) >= 2
  /\ units[1].am = units[2].am
  /\ units[1].url = <<"am", "api", "v1", "alerts">>
  /\ units[2].url = <<"am", "api", "v1", "alerts">>
  /\ fwder.alertmanagers[units[1].am].paths = <<BasePath, BasePath>>

\* C21: every Forward call eventually returns. Under fair scheduling a call
\* that has reached its dispatch loop returns, whether or not any endpoint
\* ever answers: the context of each request is done at the latest when the
\* target's timeout has elapsed or the caller's deadline has passed.
C21_ForwardReturns == (fpc \in {"spawn", "wait"}) ~> (fpc = "returned")

\* Forward has returned with two endpoints that never answered: each request
\* was ended by its own timeout, the caller having set no deadline and not
\* cancelled, one of them after the clock had passed the timeout of a target
\* that is not zero.
C21_Witness ==
  /\ Dispatched
  /\ Len(units) = 2
  /\ ~ctx.cancelled
  /\ ctx.deadline = NoDeadline
  /\ \A u \in 1..2 : units[u].res = "ctx" /\ units[u].code = 0
  /\ \E u \in 1..2 : fwder.alertmanagers[units[u].am].timeout > 0
  /\ result = AllFailedErr(Len(alerts))

\* The process was started with a configuration that names no alertmanager.
ZeroTargets == cfg.load = "ok" /\ cfg.alertmanagers = <<>>

\* C22: a configuration without targets is accepted: NewForwarder returns a
\* Forwarder and the process serves. There, a Forward call launches no
\* goroutine and issues no POST; when it has returned, the error is the
\* all-endpoints-failed error with the batch size for a non-empty batch and
\* nil for an empty one.
C22_ZeroTargetsAllFailed ==
  ZeroTargets =>
    /\ proc \notin {"panicked"}
    /\ proc \in {"webhook", "serving"} => fwder = NilForwarder
    /\ units = <<>> /\ wg = 0 /\ numSuccess = 0
    /\ (Returned /\ Len(alerts) > 0) => result = AllFailedErr(Len(alerts))
    /\ (Returned /\ Len(alerts) = 0) => result = NoErr

\* The process built from a configuration without targets is serving and a
\* Forward call of one alert has returned the error.
C22_Witness ==
  /\ ZeroTargets
  /\ proc = "serving"
  /\ hpc = "forwarding"
  /\ Returned
  /\ Len(alerts) = 1
  /\ result = AllFailedErr(1)

\* The goroutines that dispatch to a target whose timeout is zero.
ZeroTimeoutUnits ==
  {u \in 1..Len(units) : fwder.alertmanagers[units[u].am].timeout = 0}

\* C23: a dispatch to a target whose timeout is zero never succeeds. The
\* deadline of its request is the moment it is issued, so no response is
\* received and the goroutine never counts: the request, once issued, can only
\* end in an error, and a call whose targets all have a timeout of zero
\* returns the all-endpoints-failed error.
C23_ZeroTimeoutNeverSucceeds ==
  /\ \A u \in ZeroTimeoutUnits :
       /\ units[u].res # "ok"
       /\ units[u].code = 0
       /\ units[u].st \notin {"returned", "counted"}
       /\ units[u].st = "posting"
            => units[u].dl <= now /\ ~ENABLED UnitResponse(u)
  /\ numSuccess <= Len(units) - Cardinality(ZeroTimeoutUnits)
  /\ (Dispatched /\ ZeroTimeoutUnits = 1..Len(units))
       => result = AllFailedErr(Len(alerts))

\* Forward has returned nil: the request to the target with a timeout of zero
\* was ended by its context while the endpoint of a target with a timeout was
\* answered 2xx, the caller having set no deadline and not cancelled.
C23_Witness ==
  /\ Dispatched
  /\ ~ctx.cancelled
  /\ ctx.deadline = NoDeadline
  /\ \E u \in ZeroTimeoutUnits : units[u].res = "ctx" /\ units[u].dos = 1
  /\ \E v \in 1..Len(units) : v \notin ZeroTimeoutUnits /\ units[v].res = "ok"
  /\ result = NoErr
====
